---- MODULE Spec2Model ----
(***************************************************************************)
(* Connect Four: board model (game.ts), win detection and the CPU move     *)
(* chooser (cpu.ts).                                                       *)
(*                                                                         *)
(* Boards are JavaScript arrays of column arrays, so a board is modelled   *)
(* as an object: a function from column index to the ADDRESS of a column   *)
(* array, and `heap` maps addresses to column arrays.  Reading a board     *)
(* goes through deref; writes change the heap.  Whether a write made       *)
(* through one board object is visible through another one is therefore    *)
(* decided by what cloneBoard allocates, as in the program.                *)
(***************************************************************************)
EXTENDS Integers, Sequences, FiniteSets, TLC

VARIABLES heap,    \* address -> column array
          board,   \* the caller's board object: column index -> address
          placed,  \* number of placePiece calls that wrote a piece
          op,      \* the last operation called
          args,    \* its arguments
          ret,     \* what it returned
          gameMode,            \* sessionStorage 'gameMode'
          currentPlayer,       \* main.ts module state
          gameOver,
          player1Score,
          player2Score,
          isPaused,
          isDropping,
          roundStartingPlayer,
          turnTimer,           \* interval id, or null
          timeRemaining,
          cpuMoveTimeout,      \* timeout id, or null
          timeouts,    \* pending setTimeout callbacks, oldest first
          intervals,   \* running setInterval timers
          pellets,     \* pellets of the board with an animationend listener
          lastPiece,   \* history: owner of the last piece of this round, or 0
          roundScore,  \* history: player1Score + player2Score at the round's start
          calls        \* the frames of the running getCpuMove, innermost last

uiVars == <<gameMode, currentPlayer, gameOver, player1Score, player2Score,
            isPaused, isDropping, roundStartingPlayer, turnTimer, timeRemaining,
            cpuMoveTimeout, timeouts, intervals, pellets, lastPiece, roundScore>>

vars == <<heap, board, placed, op, args, ret, uiVars, calls>>

null == 0
TURN_TIME_LIMIT == 30

\* The state of main.ts when the module has been evaluated and no handler
\* has run.
PageLoaded ==
  /\ gameMode = "pvp"
  /\ currentPlayer = 1
  /\ gameOver = FALSE
  /\ player1Score = 0
  /\ player2Score = 0
  /\ isPaused = FALSE
  /\ isDropping = FALSE
  /\ roundStartingPlayer = 1
  /\ turnTimer = null
  /\ timeRemaining = TURN_TIME_LIMIT
  /\ cpuMoveTimeout = null
  /\ timeouts = <<>>
  /\ intervals = {}
  /\ pellets = {}
  /\ lastPiece = 0
  /\ roundScore = 0

(***************************************************************************)
(* Program constants                                                       *)
(***************************************************************************)
COLS == 7
ROWS == 6
SEARCH_DEPTH == 6
\* A win worth no more than the cells of the grid, less than one
\* three-in-a-row pattern.
WinScoreLow == COLS * ROWS
WIN_SCORE == 100000
LOSE_SCORE == -100000
\* JavaScript Infinity / -Infinity: beyond every score the search produces
\* (|score| <= WIN_SCORE + SEARCH_DEPTH).
Infinity == 1000000
NegInfinity == -1000000

(***************************************************************************)
(* Bounds of the model                                                     *)
(***************************************************************************)
\* Spec: number of pieces placed on the board made by createBoard().
MaxPieces == 6
\* SpecMoves: number of pieces placed on the board made by createBoard().
MaxQueryPieces == 3
\* SpecWin, SpecCpu: number of cells the seed boards leave empty.
MaxEmpty == 7
\* SpecCpu: largest remaining depth given to a direct minimax call.
MaxDepth == 3
\* SpecClone: number of pieces placed, through the board and its clone together.
MaxClonePieces == 3
\* SpecSearch: largest remaining depth given to a minimax call with a window.
MaxWindowDepth == 1

ColIdx == 0..(COLS - 1)
RowIdx == 0..(ROWS - 1)
Players == {1, 2}

Max(a, b) == IF a >= b THEN a ELSE b
Min(a, b) == IF a <= b THEN a ELSE b

(***************************************************************************)
(* Heap access                                                             *)
(***************************************************************************)
\* The value of the board object b: column index -> row index -> cell.
deref(h, b) == [c \in ColIdx |-> h[b[c]]]

\* board[col][row] = player
writeCell(h, b, col, row, player) ==
  [h EXCEPT ![b[col]] = [@ EXCEPT ![row] = player]]

\* Objects allocated after the heap had n columns are unreachable once the
\* function that allocated them has returned.
release(h, n) == SubSeq(h, 1, n)

(***************************************************************************)
(* game.ts                                                                 *)
(***************************************************************************)
\* Array(COLS).fill(column): every column index refers to one column array.
createBoardShared(h) ==
  [heap  |-> Append(h, [r \in RowIdx |-> 0]),
   board |-> [c \in ColIdx |-> Len(h) + 1]]

createBoard(h) ==
  [heap  |-> h \o [i \in 1..COLS |-> [r \in RowIdx |-> 0]],
   board |-> [c \in ColIdx |-> Len(h) + c + 1]]

RECURSIVE scanRow(_, _, _)
scanRow(b, col, row) ==
  IF row < ROWS
  THEN IF b[col][row] = 0 THEN row ELSE scanRow(b, col, row + 1)
  ELSE -1

getLowestEmptyRowTopDown(b, col) ==
  IF \E r \in RowIdx : b[col][r] = 0
  THEN CHOOSE r \in RowIdx : b[col][r] = 0 /\ \A q \in RowIdx : b[col][q] = 0 => q <= r
  ELSE -1

\* A scan that starts one row too high.
getLowestEmptyRowSkipsBottom(b, col) == scanRow(b, col, 1)

getLowestEmptyRow(b, col) == scanRow(b, col, 0)

placePieceOverwrite(h, b, col, player) ==
  LET row == getLowestEmptyRow(deref(h, b), col)
  IN  IF row = -1
      THEN [heap |-> writeCell(h, b, col, ROWS - 1, player), ret |-> -1]
      ELSE [heap |-> writeCell(h, b, col, row, player), ret |-> row]

placePiece(h, b, col, player) ==
  LET row == getLowestEmptyRow(deref(h, b), col)
  IN  IF row = -1
      THEN [heap |-> h, ret |-> -1]
      ELSE [heap |-> writeCell(h, b, col, row, player), ret |-> row]

Dirs == <<<<1, 0>>, <<0, 1>>, <<1, 1>>, <<1, -1>>>>

InGrid(c, r) == c >= 0 /\ c < COLS /\ r >= 0 /\ r < ROWS

\* The while loops of checkWin: the number of consecutive cells of player
\* met from (c, r) in steps of (dc, dr).
RECURSIVE countDir(_, _, _, _, _, _)
countDir(b, c, r, dc, dr, player) ==
  IF InGrid(c, r) /\ b[c][r] = player
  THEN 1 + countDir(b, c + dc, r + dr, dc, dr, player)
  ELSE 0

checkWinOneSided(b, col, row, player) ==
  \E i \in 1..4 :
    1 + countDir(b, col + Dirs[i][1], row + Dirs[i][2], Dirs[i][1], Dirs[i][2], player) >= 4

checkWinThree(b, col, row, player) ==
  \E i \in 1..4 :
    1 + countDir(b, col + Dirs[i][1], row + Dirs[i][2], Dirs[i][1], Dirs[i][2], player)
      + countDir(b, col - Dirs[i][1], row - Dirs[i][2], -Dirs[i][1], -Dirs[i][2], player) >= 3

checkWin(b, col, row, player) ==
  \E i \in 1..4 :
    1 + countDir(b, col + Dirs[i][1], row + Dirs[i][2], Dirs[i][1], Dirs[i][2], player)
      + countDir(b, col - Dirs[i][1], row - Dirs[i][2], -Dirs[i][1], -Dirs[i][2], player) >= 4

\* The loops of countPieces from cell i = col * ROWS + row on.
RECURSIVE countFrom(_, _)
countFrom(b, i) ==
  IF i >= COLS * ROWS THEN 0
  ELSE (IF b[i \div ROWS][i % ROWS] # 0 THEN 1 ELSE 0) + countFrom(b, i + 1)

countPieces(b) == countFrom(b, 0)

\* A comparison that a full board does not pass.
checkDrawStrict(b) == countPieces(b) > COLS * ROWS

checkDraw(b) == countPieces(b) >= COLS * ROWS

(***************************************************************************)
(* cpu.ts                                                                  *)
(***************************************************************************)
\* board.map((col) => [...col]): a new outer array of new column arrays.
cloneBoardShallow(h, b) == [heap |-> h, board |-> b]

cloneBoard(h, b) ==
  [heap  |-> h \o [i \in 1..COLS |-> h[b[i - 1]]],
   board |-> [c \in ColIdx |-> Len(h) + c + 1]]

columnOrder == <<3, 2, 4, 1, 5, 0, 6>>

getValidMovesAscending(b) ==
  SelectSeq(<<0, 1, 2, 3, 4, 5, 6>>, LAMBDA col : getLowestEmptyRow(b, col) # -1)

getValidMoves(b) ==
  SelectSeq(columnOrder, LAMBDA col : getLowestEmptyRow(b, col) # -1)

simulateMove(h, b, col, player) ==
  LET cl  == cloneBoard(h, b)
      row == getLowestEmptyRow(deref(cl.heap, cl.board), col)
  IN  [heap     |-> IF row # -1
                    THEN writeCell(cl.heap, cl.board, col, row, player)
                    ELSE cl.heap,
       newBoard |-> cl.board,
       row      |-> row]

\* The 4-cell windows countPatterns keeps (cells.length = 4): start cell and
\* direction with all four cells inside the grid.
Windows ==
  {w \in ColIdx \X RowIdx \X (1..4) :
     InGrid(w[1] + 3 * Dirs[w[3]][1], w[2] + 3 * Dirs[w[3]][2])}

\* The windows one after the other, each as its four cells <<c, r>>.
RECURSIVE windowList(_)
windowList(ws) ==
  IF ws = {} THEN <<>>
  ELSE LET w == CHOOSE x \in ws : TRUE
       IN  <<[i \in 1..4 |-> <<w[1] + (i - 1) * Dirs[w[3]][1],
                               w[2] + (i - 1) * Dirs[w[3]][2]>>]>>
           \o windowList(ws \ {w})

WindowCells == windowList(Windows)

countIn(cells, v) ==
  (IF cells[1] = v THEN 1 ELSE 0) + (IF cells[2] = v THEN 1 ELSE 0)
  + (IF cells[3] = v THEN 1 ELSE 0) + (IF cells[4] = v THEN 1 ELSE 0)

\* The test that no opponent piece blocks the window is missing.
windowPatternBlocked(b, w, player) ==
  LET cells       == <<b[w[1][1]][w[1][2]], b[w[2][1]][w[2][2]],
                       b[w[3][1]][w[3][2]], b[w[4][1]][w[4][2]]>>
      playerCount == countIn(cells, player)
  IN  IF playerCount = 3 THEN 3
      ELSE IF playerCount = 2 THEN 2 ELSE 0

\* What one window adds: 3 to threes++, 2 to twos++, 0 to neither.
windowPattern(b, w, player) ==
  LET cells       == <<b[w[1][1]][w[1][2]], b[w[2][1]][w[2][2]],
                       b[w[3][1]][w[3][2]], b[w[4][1]][w[4][2]]>>
      playerCount == countIn(cells, player)
      emptyCount  == countIn(cells, 0)
  IN  IF playerCount + emptyCount = 4
      THEN IF playerCount = 3 /\ emptyCount = 1 THEN 3
           ELSE IF playerCount = 2 /\ emptyCount = 2 THEN 2 ELSE 0
      ELSE 0

\* found: what each window, by its position in WindowCells, adds.
countPatterns(b, player) ==
  LET found == {<<i, windowPattern(b, WindowCells[i], player)>> : i \in 1..Len(WindowCells)}
  IN  [twos   |-> Cardinality({p \in found : p[2] = 2}),
       threes |-> Cardinality({p \in found : p[2] = 3})]

\* Every occupied cell adds the weight, whoever owns it.
RECURSIVE columnScoreUnsigned(_, _, _, _)
columnScoreUnsigned(b, col, row, weight) ==
  IF row >= ROWS THEN 0
  ELSE (IF b[col][row] # 0 THEN weight ELSE 0)
       + columnScoreUnsigned(b, col, row + 1, weight)

RECURSIVE columnScore(_, _, _, _)
columnScore(b, col, row, weight) ==
  IF row >= ROWS THEN 0
  ELSE (IF b[col][row] = 2 THEN weight
        ELSE IF b[col][row] = 1 THEN -weight ELSE 0)
       + columnScore(b, col, row + 1, weight)

\* The two-patterns of player 1 are not subtracted.
evaluateBoardCpuTwos(b) ==
  LET cpuPatterns   == countPatterns(b, 2)
      humanPatterns == countPatterns(b, 1)
  IN  columnScore(b, 3, 0, 3) + columnScore(b, 2, 0, 2) + columnScore(b, 4, 0, 2)
      + cpuPatterns.threes * 50 + cpuPatterns.twos * 10
      - humanPatterns.threes * 50

\* The centre-column terms are missing.
evaluateBoardPatternsOnly(b) ==
  LET cpuPatterns   == countPatterns(b, 2)
      humanPatterns == countPatterns(b, 1)
  IN  cpuPatterns.threes * 50 + cpuPatterns.twos * 10
      - humanPatterns.threes * 50 - humanPatterns.twos * 10

evaluateBoard(b) ==
  LET cpuPatterns   == countPatterns(b, 2)
      humanPatterns == countPatterns(b, 1)
  IN  columnScore(b, 3, 0, 3) + columnScore(b, 2, 0, 2) + columnScore(b, 4, 0, 2)
      + cpuPatterns.threes * 50 + cpuPatterns.twos * 10
      - humanPatterns.threes * 50 - humanPatterns.twos * 10

wouldWin(h, b, col, player) ==
  LET row == getLowestEmptyRow(deref(h, b), col)
  IN  IF row = -1
      THEN [heap |-> h, ret |-> FALSE]
      ELSE LET sim == simulateMove(h, b, col, player)
           IN  [heap |-> release(sim.heap, Len(h)),
                ret  |-> checkWin(deref(sim.heap, sim.newBoard), col, row, player)]

\* A comparison written the wrong way round.
cutoffReversed(alpha, beta) == alpha <= beta

\* if (beta <= alpha) break
cutoff(alpha, beta) == beta <= alpha

\* depth === 0 is tested before validMoves.length === 0.
RECURSIVE minimax(_, _, _, _, _, _), maximize(_, _, _, _, _, _, _, _, _),
          minimize(_, _, _, _, _, _, _, _, _)
minimaxDepthFirst(h, b, depth, alpha, beta, isMaximizing) ==
  LET validMoves == getValidMoves(deref(h, b))
  IN  IF depth = 0
      THEN [heap |-> h, score |-> evaluateBoard(deref(h, b)), cuts |-> 0]
      ELSE IF Len(validMoves) = 0 THEN [heap |-> h, score |-> 0, cuts |-> 0]
      ELSE IF isMaximizing
           THEN maximize(h, b, depth, alpha, beta, validMoves, 1, NegInfinity, 0)
           ELSE minimize(h, b, depth, alpha, beta, validMoves, 1, Infinity, 0)

\* The search returns [heap, score, cuts]: the heap it leaves, the score, and
\* the number of loops it left through a cut-off (bookkeeping of the model).

minimax(h, b, depth, alpha, beta, isMaximizing) ==
  LET validMoves == getValidMoves(deref(h, b))
  IN  IF Len(validMoves) = 0 THEN [heap |-> h, score |-> 0, cuts |-> 0]
      ELSE IF depth = 0
           THEN [heap |-> h, score |-> evaluateBoard(deref(h, b)), cuts |-> 0]
      ELSE IF isMaximizing
           THEN maximize(h, b, depth, alpha, beta, validMoves, 1, NegInfinity, 0)
           ELSE minimize(h, b, depth, alpha, beta, validMoves, 1, Infinity, 0)

\* A win scores WIN_SCORE whatever the remaining depth.
maximizeNoDepth(h, b, depth, alpha, beta, validMoves, i, maxScore, cuts) ==
  IF i > Len(validMoves) THEN [heap |-> h, score |-> maxScore, cuts |-> cuts]
  ELSE
    LET col == validMoves[i]
        sim == simulateMove(h, b, col, 2)
    IN  IF checkWin(deref(sim.heap, sim.newBoard), col, sim.row, 2)
        THEN [heap |-> release(sim.heap, Len(h)), score |-> WIN_SCORE, cuts |-> cuts]
        ELSE
          LET sub      == minimax(sim.heap, sim.newBoard, depth - 1, alpha, beta, FALSE)
              h2       == release(sub.heap, Len(h))
              newMax   == Max(maxScore, sub.score)
              newAlpha == Max(alpha, sub.score)
          IN  IF cutoff(newAlpha, beta)
              THEN [heap |-> h2, score |-> newMax, cuts |-> cuts + sub.cuts + 1]
              ELSE maximize(h2, b, depth, newAlpha, beta, validMoves, i + 1, newMax,
                            cuts + sub.cuts)

\* The loop of the maximizing branch from its i-th move on.
maximize(h, b, depth, alpha, beta, validMoves, i, maxScore, cuts) ==
  IF i > Len(validMoves) THEN [heap |-> h, score |-> maxScore, cuts |-> cuts]
  ELSE
    LET col == validMoves[i]
        sim == simulateMove(h, b, col, 2)
    IN  IF checkWin(deref(sim.heap, sim.newBoard), col, sim.row, 2)
        THEN [heap |-> release(sim.heap, Len(h)), score |-> WIN_SCORE + depth,
              cuts |-> cuts]
        ELSE
          LET sub      == minimax(sim.heap, sim.newBoard, depth - 1, alpha, beta, FALSE)
              h2       == release(sub.heap, Len(h))
              newMax   == Max(maxScore, sub.score)
              newAlpha == Max(alpha, sub.score)
          IN  IF cutoff(newAlpha, beta)
              THEN [heap |-> h2, score |-> newMax, cuts |-> cuts + sub.cuts + 1]
              ELSE maximize(h2, b, depth, newAlpha, beta, validMoves, i + 1, newMax,
                            cuts + sub.cuts)

\* alpha = Math.max(alpha, score), copied from the maximizing branch.
minimizeRaisesAlpha(h, b, depth, alpha, beta, validMoves, i, minScore, cuts) ==
  IF i > Len(validMoves) THEN [heap |-> h, score |-> minScore, cuts |-> cuts]
  ELSE
    LET col == validMoves[i]
        sim == simulateMove(h, b, col, 1)
    IN  IF checkWin(deref(sim.heap, sim.newBoard), col, sim.row, 1)
        THEN [heap |-> release(sim.heap, Len(h)), score |-> LOSE_SCORE - depth,
              cuts |-> cuts]
        ELSE
          LET sub      == minimax(sim.heap, sim.newBoard, depth - 1, alpha, beta, TRUE)
              h2       == release(sub.heap, Len(h))
              newMin   == Min(minScore, sub.score)
              newAlpha == Max(alpha, sub.score)
          IN  IF cutoff(newAlpha, beta)
              THEN [heap |-> h2, score |-> newMin, cuts |-> cuts + sub.cuts + 1]
              ELSE minimize(h2, b, depth, newAlpha, beta, validMoves, i + 1, newMin,
                            cuts + sub.cuts)

\* The loop of the minimizing branch from its i-th move on.
minimize(h, b, depth, alpha, beta, validMoves, i, minScore, cuts) ==
  IF i > Len(validMoves) THEN [heap |-> h, score |-> minScore, cuts |-> cuts]
  ELSE
    LET col == validMoves[i]
        sim == simulateMove(h, b, col, 1)
    IN  IF checkWin(deref(sim.heap, sim.newBoard), col, sim.row, 1)
        THEN [heap |-> release(sim.heap, Len(h)), score |-> LOSE_SCORE - depth,
              cuts |-> cuts]
        ELSE
          LET sub     == minimax(sim.heap, sim.newBoard, depth - 1, alpha, beta, TRUE)
              h2      == release(sub.heap, Len(h))
              newMin  == Min(minScore, sub.score)
              newBeta == Min(beta, sub.score)
          IN  IF cutoff(alpha, newBeta)
              THEN [heap |-> h2, score |-> newMin, cuts |-> cuts + sub.cuts + 1]
              ELSE minimize(h2, b, depth, alpha, newBeta, validMoves, i + 1, newMin,
                            cuts + sub.cuts)

\* for (const col of validMoves) if (wouldWin(board, col, player)) return col
RECURSIVE scanWouldWin(_, _, _, _, _)
scanWouldWin(h, b, validMoves, i, player) ==
  IF i > Len(validMoves) THEN [heap |-> h, found |-> FALSE, col |-> -1]
  ELSE LET w == wouldWin(h, b, validMoves[i], player)
       IN  IF w.ret THEN [heap |-> w.heap, found |-> TRUE, col |-> validMoves[i]]
           ELSE scanWouldWin(w.heap, b, validMoves, i + 1, player)

\* The minimax loop of getCpuMove from its i-th move on.
RECURSIVE searchBest(_, _, _, _, _, _, _)
\* score >= bestScore: the last of the best columns is kept.
searchBestLast(h, b, validMoves, i, bestCol, bestScore, cuts) ==
  IF i > Len(validMoves) THEN [heap |-> h, col |-> bestCol, cuts |-> cuts]
  ELSE
    LET col == validMoves[i]
        sim == simulateMove(h, b, col, 2)
        sub == minimax(sim.heap, sim.newBoard, SEARCH_DEPTH - 1,
                       NegInfinity, Infinity, FALSE)
        h2  == release(sub.heap, Len(h))
    IN  IF sub.score >= bestScore
        THEN searchBest(h2, b, validMoves, i + 1, col, sub.score, cuts + sub.cuts)
        ELSE searchBest(h2, b, validMoves, i + 1, bestCol, bestScore, cuts + sub.cuts)

\* bestCol = i: the position in validMoves (from 0) is kept, not the column.
searchBestIndex(h, b, validMoves, i, bestCol, bestScore, cuts) ==
  IF i > Len(validMoves) THEN [heap |-> h, col |-> bestCol, cuts |-> cuts]
  ELSE
    LET col == validMoves[i]
        sim == simulateMove(h, b, col, 2)
        sub == minimax(sim.heap, sim.newBoard, SEARCH_DEPTH - 1,
                       NegInfinity, Infinity, FALSE)
        h2  == release(sub.heap, Len(h))
    IN  IF sub.score > bestScore
        THEN searchBest(h2, b, validMoves, i + 1, i - 1, sub.score, cuts + sub.cuts)
        ELSE searchBest(h2, b, validMoves, i + 1, bestCol, bestScore, cuts + sub.cuts)

searchBest(h, b, validMoves, i, bestCol, bestScore, cuts) ==
  IF i > Len(validMoves) THEN [heap |-> h, col |-> bestCol, cuts |-> cuts]
  ELSE
    LET col == validMoves[i]
        sim == simulateMove(h, b, col, 2)
        sub == minimax(sim.heap, sim.newBoard, SEARCH_DEPTH - 1,
                       NegInfinity, Infinity, FALSE)
        h2  == release(sub.heap, Len(h))
    IN  IF sub.score > bestScore
        THEN searchBest(h2, b, validMoves, i + 1, col, sub.score, cuts + sub.cuts)
        ELSE searchBest(h2, b, validMoves, i + 1, bestCol, bestScore, cuts + sub.cuts)

NoValidMoves == "No valid moves available"

\* The opponent's win is looked for before the CPU's own.
getCpuMoveBlockFirst(h, b) ==
  LET validMoves == getValidMoves(deref(h, b))
  IN  IF Len(validMoves) = 0
      THEN [heap |-> h, threw |-> NoValidMoves, col |-> -1, cuts |-> 0]
      ELSE
        LET block == scanWouldWin(h, b, validMoves, 1, 1)
        IN  IF block.found
            THEN [heap |-> block.heap, threw |-> "", col |-> block.col, cuts |-> 0]
            ELSE
              LET win == scanWouldWin(block.heap, b, validMoves, 1, 2)
              IN  IF win.found
                  THEN [heap |-> win.heap, threw |-> "", col |-> win.col, cuts |-> 0]
                  ELSE
                    LET best == searchBest(win.heap, b, validMoves, 1,
                                           validMoves[1], NegInfinity, 0)
                    IN  [heap |-> best.heap, threw |-> "", col |-> best.col,
                         cuts |-> best.cuts]

\* The validMoves.length check is missing: bestCol = validMoves[0] is undefined.
getCpuMoveUnchecked(h, b) ==
  LET validMoves == getValidMoves(deref(h, b))
  IN  IF Len(validMoves) = 0
      THEN [heap |-> h, threw |-> "", col |-> -1, cuts |-> 0]
      ELSE
        LET win == scanWouldWin(h, b, validMoves, 1, 2)
        IN  IF win.found
            THEN [heap |-> win.heap, threw |-> "", col |-> win.col, cuts |-> 0]
            ELSE
              LET block == scanWouldWin(win.heap, b, validMoves, 1, 1)
              IN  IF block.found
                  THEN [heap |-> block.heap, threw |-> "", col |-> block.col, cuts |-> 0]
                  ELSE
                    LET best == searchBest(block.heap, b, validMoves, 1,
                                           validMoves[1], NegInfinity, 0)
                    IN  [heap |-> best.heap, threw |-> "", col |-> best.col,
                         cuts |-> best.cuts]

getCpuMove(h, b) ==
  LET validMoves == getValidMoves(deref(h, b))
  IN  IF Len(validMoves) = 0
      THEN [heap |-> h, threw |-> NoValidMoves, col |-> -1, cuts |-> 0]
      ELSE
        LET win == scanWouldWin(h, b, validMoves, 1, 2)
        IN  IF win.found
            THEN [heap |-> win.heap, threw |-> "", col |-> win.col, cuts |-> 0]
            ELSE
              LET block == scanWouldWin(win.heap, b, validMoves, 1, 1)
              IN  IF block.found
                  THEN [heap |-> block.heap, threw |-> "", col |-> block.col, cuts |-> 0]
                  ELSE
                    LET best == searchBest(block.heap, b, validMoves, 1,
                                           validMoves[1], NegInfinity, 0)
                    IN  [heap |-> best.heap, threw |-> "", col |-> best.col,
                         cuts |-> best.cuts]

(***************************************************************************)
(* State machine: the board made by createBoard() and placePiece calls     *)
(***************************************************************************)
NoArgs == [col |-> -1, row |-> -1, player |-> 0, depth |-> -1, isMaximizing |-> FALSE,
           alpha |-> 0, beta |-> 0]
\* obj: a board object returned; prev: a value returned by an earlier call of
\* the same test.
NoRet == [threw |-> "", val |-> -1, flag |-> FALSE, moves |-> <<>>, cuts |-> 0,
          obj |-> <<>>, prev |-> 0]

B == deref(heap, board)

Init ==
  LET cb == createBoard(<<>>)
  IN  /\ heap = cb.heap
      /\ board = cb.board
      /\ placed = 0
      /\ op = "built"
      /\ args = NoArgs
      /\ ret = NoRet
      /\ PageLoaded
      /\ calls = <<>>

\* placePiece(board, col, player), also on a full column.
PlacePiece(col, player) ==
  \E res \in {placePiece(heap, board, col, player)} :
      /\ placed < MaxPieces \/ res.ret = -1
      /\ heap' = res.heap
      /\ UNCHANGED <<board, uiVars, calls>>
      /\ placed' = IF res.ret = -1 THEN placed ELSE placed + 1
      /\ op' = "placePiece"
      /\ args' = [NoArgs EXCEPT !.col = col, !.player = player]
      /\ ret' = [NoRet EXCEPT !.val = res.ret]

Next ==
  \E col \in ColIdx, player \in Players : PlacePiece(col, player)

Spec == Init /\ [][Next]_vars

(***************************************************************************)
(* Seed boards: boards placePiece calls can build.                         *)
(***************************************************************************)
\* Who owns cell (c, r) of a seed.  Fill 1 is the full board of the
\* getValidMoves test.
SeedFill(k, c, r) ==
  IF k = 1 THEN ((c + r) % 2) + 1
  ELSE IF k = 2 THEN ((c + (r \div 2)) % 2) + 1
  ELSE (((c \div 2) + r) % 2) + 1

\* <<fill, open columns>>: MaxEmpty empty cells in the three open columns.
Seeds == {<<1, <<3, 2, 4>>>>, <<2, <<0, 3, 6>>>>, <<3, <<5, 6, 1>>>>}

\* Empty cells of seed column c when the columns open[1..3] are open.
SeedEmpty(open, c) ==
  IF c = open[1] THEN MaxEmpty - 2
  ELSE IF c = open[2] \/ c = open[3] THEN 1
  ELSE 0

SeedColumns(k, open) ==
  [i \in 1..COLS |->
     [r \in RowIdx |-> IF r < ROWS - SeedEmpty(open, i - 1)
                       THEN SeedFill(k, i - 1, r) ELSE 0]]

InitSeed ==
  \E seed \in Seeds :
    /\ heap = SeedColumns(seed[1], seed[2])
    /\ board = [c \in ColIdx |-> c + 1]
    /\ placed = COLS * ROWS - MaxEmpty
    /\ op = "built"
    /\ args = NoArgs
    /\ ret = NoRet
    /\ PageLoaded
    /\ calls = <<>>

\* Seeds with one empty cell on top of every column.
InitWide ==
  \E k \in 1..3 :
    /\ heap = [i \in 1..COLS |->
                 [r \in RowIdx |-> IF r < ROWS - 1 THEN SeedFill(k, i - 1, r) ELSE 0]]
    /\ board = [c \in ColIdx |-> c + 1]
    /\ placed = COLS * ROWS - COLS
    /\ op = "built"
    /\ args = NoArgs
    /\ ret = NoRet
    /\ PageLoaded
    /\ calls = <<>>

\* A test builds its board, then calls the function it is about: a query is
\* applied once to every board the placements reach, and no call follows it.
Fresh == op = "built"

\* placePiece(board, col, player) with the returned row dropped, as the tests
\* of cpu.ts call it to build a board.
BuildPiece(col, player) ==
  /\ Fresh
  /\ \E res \in {placePiece(heap, board, col, player)} :
      /\ heap' = res.heap
      /\ placed' = IF res.ret = -1 THEN placed ELSE placed + 1
      /\ op' = "built"
      /\ args' = NoArgs
      /\ ret' = NoRet
      /\ UNCHANGED <<board, uiVars, calls>>

(***************************************************************************)
(* State machine: checkWin on the cells of a board                         *)
(***************************************************************************)
CheckWin(col, row) ==
  /\ Fresh
  /\ B[col][row] # 0
  /\ op' = "checkWin"
  /\ args' = [NoArgs EXCEPT !.col = col, !.row = row, !.player = B[col][row]]
  /\ ret' = [NoRet EXCEPT !.flag = checkWin(B, col, row, B[col][row])]
  /\ UNCHANGED <<heap, board, placed, uiVars, calls>>

NextWin ==
  \/ \E col \in ColIdx, player \in Players : BuildPiece(col, player)
  \/ \E col \in ColIdx, row \in RowIdx : CheckWin(col, row)

SpecWin == InitSeed /\ [][NextWin]_vars

(***************************************************************************)
(* State machine: getValidMoves                                            *)
(***************************************************************************)
GetValidMoves ==
  /\ Fresh
  /\ op' = "getValidMoves"
  /\ args' = NoArgs
  /\ ret' = [NoRet EXCEPT !.moves = getValidMoves(B)]
  /\ UNCHANGED <<heap, board, placed, uiVars, calls>>

NextMoves ==
  \/ \E col \in ColIdx, player \in Players :
       (placed < MaxQueryPieces \/ placed >= COLS * ROWS - COLS) /\ BuildPiece(col, player)
  \/ GetValidMoves

SpecMoves == (Init \/ InitWide) /\ [][NextMoves]_vars

(***************************************************************************)
(* State machine: the queries of game.ts on a board                        *)
(***************************************************************************)
CountPieces ==
  /\ Fresh
  /\ op' = "countPieces"
  /\ args' = NoArgs
  /\ ret' = [NoRet EXCEPT !.val = countPieces(B)]
  /\ UNCHANGED <<heap, board, placed, uiVars, calls>>

CheckDraw ==
  /\ Fresh
  /\ op' = "checkDraw"
  /\ args' = NoArgs
  /\ ret' = [NoRet EXCEPT !.flag = checkDraw(B)]
  /\ UNCHANGED <<heap, board, placed, uiVars, calls>>

GetLowestEmptyRow(col) ==
  /\ Fresh
  /\ op' = "getLowestEmptyRow"
  /\ args' = [NoArgs EXCEPT !.col = col]
  /\ ret' = [NoRet EXCEPT !.val = getLowestEmptyRow(B, col)]
  /\ UNCHANGED <<heap, board, placed, uiVars, calls>>

NextQuery ==
  \/ \E col \in ColIdx, player \in Players :
       (placed < MaxQueryPieces \/ placed >= COLS * ROWS - COLS) /\ BuildPiece(col, player)
  \/ CountPieces
  \/ CheckDraw
  \/ \E col \in ColIdx : GetLowestEmptyRow(col)

SpecQuery == (Init \/ InitWide) /\ [][NextQuery]_vars

(***************************************************************************)
(* State machine: a board and its clone                                    *)
(***************************************************************************)
\* const cloned = cloneBoard(board)
CloneBoard ==
  /\ Fresh
  /\ \E res \in {cloneBoard(heap, board)} :
      /\ heap' = res.heap
      /\ op' = "cloneBoard"
      /\ args' = NoArgs
      /\ ret' = [NoRet EXCEPT !.obj = res.board]
      /\ UNCHANGED <<board, placed, uiVars, calls>>

Cloned == op \in {"cloneBoard", "placeClone", "placeSource"}

\* placePiece(cloned, col, player)
PlaceClone(col, player) ==
  /\ Cloned
  /\ placed < MaxClonePieces
  /\ \E res \in {placePiece(heap, ret.obj, col, player)} :
      /\ heap' = res.heap
      /\ placed' = IF res.ret = -1 THEN placed ELSE placed + 1
      /\ op' = "placeClone"
      /\ args' = [NoArgs EXCEPT !.col = col, !.player = player]
      /\ ret' = [ret EXCEPT !.val = res.ret]
      /\ UNCHANGED <<board, uiVars, calls>>

\* placePiece(board, col, player) while the clone is held
PlaceSource(col, player) ==
  /\ Cloned
  /\ placed < MaxClonePieces
  /\ \E res \in {placePiece(heap, board, col, player)} :
      /\ heap' = res.heap
      /\ placed' = IF res.ret = -1 THEN placed ELSE placed + 1
      /\ op' = "placeSource"
      /\ args' = [NoArgs EXCEPT !.col = col, !.player = player]
      /\ ret' = [ret EXCEPT !.val = res.ret]
      /\ UNCHANGED <<board, uiVars, calls>>

NextClone ==
  \/ \E col \in ColIdx, player \in Players :
       placed < MaxClonePieces /\ BuildPiece(col, player)
  \/ CloneBoard
  \/ \E col \in ColIdx, player \in Players : PlaceClone(col, player)
  \/ \E col \in ColIdx, player \in Players : PlaceSource(col, player)

SpecClone == Init /\ [][NextClone]_vars

(***************************************************************************)
(* State machine: evaluateBoard on a board                                 *)
(***************************************************************************)
EvaluateBoard ==
  /\ Fresh
  /\ op' = "evaluateBoard"
  /\ args' = NoArgs
  /\ ret' = [NoRet EXCEPT !.val = evaluateBoard(B)]
  /\ UNCHANGED <<heap, board, placed, uiVars, calls>>

\* After evaluateBoard(board): placePiece(board, 3, player) lands and
\* evaluateBoard(board) is called again.
EvaluateCentre(player) ==
  /\ op = "evaluateBoard"
  /\ \E res \in {placePiece(heap, board, 3, player)} :
      /\ res.ret # -1
      /\ heap' = res.heap
      /\ placed' = placed + 1
      /\ op' = "evaluateCentre"
      /\ args' = [NoArgs EXCEPT !.col = 3, !.row = res.ret, !.player = player]
      /\ ret' = [NoRet EXCEPT !.prev = ret.val,
                              !.val = evaluateBoard(deref(res.heap, board))]
      /\ UNCHANGED <<board, uiVars, calls>>

NextEval ==
  \/ \E col \in ColIdx, player \in Players :
       (placed < MaxQueryPieces \/ placed >= COLS * ROWS - COLS) /\ BuildPiece(col, player)
  \/ EvaluateBoard
  \/ \E player \in Players : EvaluateCentre(player)

SpecEval == (Init \/ InitWide) /\ [][NextEval]_vars

(***************************************************************************)
(* State machine: the CPU player's functions on a board                    *)
(***************************************************************************)
GetCpuMove ==
  /\ Fresh
  /\ \E res \in {getCpuMove(heap, board)} :
      /\ heap' = res.heap
      /\ op' = "getCpuMove"
      /\ args' = NoArgs
      /\ ret' = [NoRet EXCEPT !.threw = res.threw, !.val = res.col, !.cuts = res.cuts]
      /\ UNCHANGED <<board, placed, uiVars, calls>>

Minimax(depth, isMaximizing) ==
  /\ Fresh
  /\ \E res \in {minimax(heap, board, depth, NegInfinity, Infinity, isMaximizing)} :
      /\ heap' = res.heap
      /\ op' = "minimax"
      /\ args' = [NoArgs EXCEPT !.depth = depth, !.isMaximizing = isMaximizing,
                              !.alpha = NegInfinity, !.beta = Infinity]
      /\ ret' = [NoRet EXCEPT !.val = res.score, !.cuts = res.cuts]
      /\ UNCHANGED <<board, placed, uiVars, calls>>

NextCpu ==
  \/ \E col \in ColIdx, player \in Players : BuildPiece(col, player)
  \/ GetCpuMove
  \/ \E depth \in 0..MaxDepth, isMaximizing \in BOOLEAN : Minimax(depth, isMaximizing)

SpecCpu == InitSeed /\ [][NextCpu]_vars

(***************************************************************************)
(* State machine: minimax called with a window                             *)
(***************************************************************************)
\* The windows <<alpha, beta>> minimax is called with: the full one, one
\* around 0, one above 0 and one below 0.
SearchWindows ==
  {<<NegInfinity, Infinity>>, <<-10, 10>>, <<10, Infinity>>, <<NegInfinity, -10>>}

MinimaxWindow(depth, alpha, beta, isMaximizing) ==
  /\ Fresh
  /\ \E res \in {minimax(heap, board, depth, alpha, beta, isMaximizing)} :
      /\ heap' = res.heap
      /\ op' = "minimaxWindow"
      /\ args' = [NoArgs EXCEPT !.depth = depth, !.isMaximizing = isMaximizing,
                              !.alpha = alpha, !.beta = beta]
      /\ ret' = [NoRet EXCEPT !.val = res.score, !.cuts = res.cuts]
      /\ UNCHANGED <<board, placed, uiVars, calls>>

NextSearch ==
  \/ \E col \in ColIdx, player \in Players : BuildPiece(col, player)
  \/ \E depth \in 0..MaxWindowDepth, w \in SearchWindows, isMaximizing \in BOOLEAN :
       MinimaxWindow(depth, w[1], w[2], isMaximizing)

SpecSearch == InitSeed /\ [][NextSearch]_vars

(***************************************************************************)
(* State machine: the CPU moves first                                      *)
(***************************************************************************)
\* getCpuMove(createBoard()); on the boards placePiece calls build from it the
\* move generator is called.
NextOpening ==
  \/ \E col \in ColIdx, player \in Players :
       placed < MaxQueryPieces /\ BuildPiece(col, player)
  \/ placed = 0 /\ GetCpuMove
  \/ GetValidMoves

SpecOpening == Init /\ [][NextOpening]_vars

(***************************************************************************)
(* Reference definitions used by the properties                            *)
(***************************************************************************)
Full(b, c) == \A r \in RowIdx : b[c][r] # 0

\* The lowest empty row of a column that is not full.
LowestEmpty(b, c) ==
  CHOOSE r \in RowIdx : b[c][r] = 0 /\ \A q \in RowIdx : q < r => b[c][q] # 0

\* Some line of four cells of the grid through (c, r) is all player's.
HasRun(b, c, r, player) ==
  \E d \in {<<1, 0>>, <<0, 1>>, <<1, 1>>, <<1, -1>>} : \E s \in 0..3 :
    \A k \in 0..3 :
      LET cc == c + (k - s) * d[1]
          rr == r + (k - s) * d[2]
      IN  cc \in ColIdx /\ rr \in RowIdx /\ b[cc][rr] = player

\* The board after player's piece has dropped into column c.
Dropped(b, c, player) == [b EXCEPT ![c][LowestEmpty(b, c)] = player]

\* Dropping player's piece into column c completes a four-in-a-row.
WinsAt(b, c, player) ==
  /\ ~Full(b, c)
  /\ HasRun(Dropped(b, c, player), c, LowestEmpty(b, c), player)

WinningCols(b, player) == {c \in ColIdx : WinsAt(b, c, player)}

CenterOrder == <<3, 2, 4, 1, 5, 0, 6>>
CenterRank(c) == CHOOSE i \in 1..7 : CenterOrder[i] = c
OpenInOrder(b) == SelectSeq(CenterOrder, LAMBDA c : ~Full(b, c))

\* Minimax without cut-offs: every move of every node is searched.
RECURSIVE plainMinimax(_, _, _), plainBest(_, _, _, _, _, _)
plainMinimax(b, depth, isMaximizing) ==
  LET moves  == OpenInOrder(b)
      player == IF isMaximizing THEN 2 ELSE 1
  IN  IF Len(moves) = 0 THEN 0
      ELSE IF depth = 0 THEN evaluateBoard(b)
      ELSE IF \E i \in 1..Len(moves) : WinsAt(b, moves[i], player)
           THEN IF isMaximizing THEN WIN_SCORE + depth ELSE LOSE_SCORE - depth
      ELSE plainBest(b, depth, isMaximizing, moves, 1,
                     IF isMaximizing THEN NegInfinity ELSE Infinity)

plainBest(b, depth, isMaximizing, moves, i, best) ==
  IF i > Len(moves) THEN best
  ELSE LET score == plainMinimax(Dropped(b, moves[i], IF isMaximizing THEN 2 ELSE 1),
                                 depth - 1, ~isMaximizing)
       IN  plainBest(b, depth, isMaximizing, moves, i + 1,
                     IF isMaximizing THEN Max(best, score) ELSE Min(best, score))

\* The column the search of getCpuMove picks when no move is cut off: the
\* first one, in centre-first order, with the greatest plain minimax score.
PlainScore(b, c) == plainMinimax(Dropped(b, c, 2), SEARCH_DEPTH - 1, FALSE)

PlainChoice(b) ==
  LET moves  == OpenInOrder(b)
      scores == [i \in 1..Len(moves) |-> PlainScore(b, moves[i])]
  IN  moves[CHOOSE i \in 1..Len(moves) :
              /\ \A j \in 1..Len(moves) : scores[j] <= scores[i]
              /\ \A j \in 1..(i - 1) : scores[j] < scores[i]]

(***************************************************************************)
(* Properties                                                              *)
(***************************************************************************)
\* C1 (Spec): gravity.  On every board reached from createBoard() by
\* placePiece calls, the occupied cells of each column are exactly the rows
\* 0..k-1 for some k in 0..6: no empty cell lies below an occupied one.
Gravity ==
  LET b == B
  IN  \A c \in ColIdx : \E k \in 0..ROWS : \A r \in RowIdx : (b[c][r] # 0) <=> (r < k)

\* A column holding a stack of at least three pieces with room above it, and
\* a column still empty.
GravityWitness ==
  /\ op = "placePiece"
  /\ \E c \in ColIdx : B[c][2] # 0 /\ B[c][3] = 0
  /\ \E c \in ColIdx : B[c][0] = 0

\* C2 (Spec): placePiece on a column whose six cells are all occupied returns
\* -1 and leaves every cell of the board unchanged.
FullColumnRejected ==
  [][op' = "placePiece"
       => LET b == B
          IN  (\A r \in RowIdx : b[args'.col][r] # 0) => (ret'.val = -1 /\ B' = b)]_vars

FullColumnWitness ==
  /\ op = "placePiece"
  /\ ret.val = -1
  /\ \A r \in RowIdx : B[args.col][r] # 0

\* C3 (Spec): placePiece on a column that is not full writes player into the
\* lowest empty row r of col, returns r and changes no other cell.
PlaceWritesLowest ==
  [][op' = "placePiece"
       => LET b   == B
              bb  == B'
              col == args'.col
          IN  (\E r \in RowIdx : b[col][r] = 0)
                => LET r == LowestEmpty(b, col)
                   IN  /\ ret'.val = r
                       /\ bb = [b EXCEPT ![col][r] = args'.player]]_vars

PlaceWitness ==
  /\ op = "placePiece"
  /\ ret.val >= 1
  /\ B[args.col][ret.val] = args.player
  /\ \E c \in ColIdx : c # args.col /\ B[c][0] # 0

\* C4 (SpecWin): for a cell (col, row) holding player, checkWin is true iff in
\* one of the four directions the run of player's cells through (col, row)
\* has length >= 4; longer runs win too, an interrupted run does not, and no
\* cell outside the grid is read.
CheckWinIffRun ==
  op = "checkWin" => (ret.flag <=> HasRun(B, args.col, args.row, args.player))

\* checkWin has answered true for a cell in the middle of a run.
CheckWinWitness ==
  /\ op = "checkWin"
  /\ ret.flag
  /\ \E d \in {<<1, 0>>, <<1, 1>>, <<1, -1>>} :
       LET c1 == args.col - d[1]
           r1 == args.row - d[2]
           c2 == args.col + d[1]
           r2 == args.row + d[2]
       IN  /\ c1 \in ColIdx /\ r1 \in RowIdx /\ c2 \in ColIdx /\ r2 \in RowIdx
           /\ B[c1][r1] = args.player /\ B[c2][r2] = args.player

\* C5 (SpecCpu): whenever some non-full column completes a four-in-a-row for
\* player 2, getCpuMove returns such a column, also when player 1 has a
\* winning column too.
WinOverBlock ==
  (op = "getCpuMove" /\ WinningCols(B, 2) # {})
    => (ret.threw = "" /\ ret.val \in WinningCols(B, 2))

\* Both players can win at once, in different columns only.
WinOverBlockWitness ==
  /\ op = "getCpuMove"
  /\ WinningCols(B, 2) # {}
  /\ WinningCols(B, 1) # {}
  /\ WinningCols(B, 1) \cap WinningCols(B, 2) = {}
  /\ ret.val \in WinningCols(B, 2)

\* C6 (SpecCpu): when player 2 has no winning column and player 1 has exactly
\* one, c, getCpuMove returns c.
BlocksSoleThreat ==
  (op = "getCpuMove" /\ WinningCols(B, 2) = {} /\ Cardinality(WinningCols(B, 1)) = 1)
    => (ret.threw = "" /\ WinningCols(B, 1) = {ret.val})

BlocksSoleThreatWitness ==
  /\ op = "getCpuMove"
  /\ WinningCols(B, 2) = {}
  /\ Cardinality(WinningCols(B, 1)) = 1
  /\ Cardinality({c \in ColIdx : ~Full(B, c)}) = 3
  /\ ret.val \in WinningCols(B, 1)

\* C7 (SpecCpu): getCpuMove, with everything it calls, changes no cell of the
\* caller's board, whether it returns or throws.
CallerBoardUntouched ==
  [][op' = "getCpuMove" => (board' = board /\ heap' = heap /\ B' = B)]_vars

\* The search ran (no immediate win on either side) on three open columns.
CallerBoardWitness ==
  /\ op = "getCpuMove"
  /\ ret.threw = ""
  /\ WinningCols(B, 2) = {}
  /\ WinningCols(B, 1) = {}
  /\ Cardinality({c \in ColIdx : ~Full(B, c)}) = 3
  /\ placed <= COLS * ROWS - SEARCH_DEPTH

\* C8 (SpecCpu): with the full window minimax returns the value of the same
\* recursion without cut-offs, and getCpuMove returns the column the search
\* without cut-offs picks.
PruningSound ==
  /\ op = "minimax" => ret.val = plainMinimax(B, args.depth, args.isMaximizing)
  /\ (op = "getCpuMove" /\ ret.threw = ""
        /\ WinningCols(B, 2) = {} /\ WinningCols(B, 1) = {})
       => ret.val = PlainChoice(B)

\* A search that left loops through cut-offs.
PruningWitness ==
  /\ op = "getCpuMove"
  /\ ret.threw = ""
  /\ WinningCols(B, 2) = {}
  /\ WinningCols(B, 1) = {}
  /\ ret.cuts >= 2

\* C9 (SpecCpu): getCpuMove fails with 'No valid moves available' exactly on
\* the boards without a non-full column; on every other board it returns a
\* column.
ThrowsIffFull ==
  op = "getCpuMove" =>
    /\ (\A c \in ColIdx : Full(B, c)) => ret.threw = "No valid moves available"
    /\ (\E c \in ColIdx : ~Full(B, c)) => (ret.threw = "" /\ ret.val \in ColIdx)

ThrowsWitness ==
  /\ op = "getCpuMove"
  /\ ret.threw = "No valid moves available"
  /\ \A c \in ColIdx : Full(B, c)

\* C10 (SpecMoves): getValidMoves returns exactly the columns that are not
\* full, each once, in the order 3,2,4,1,5,0,6: the whole order on the empty
\* board, nothing on a full board.
ValidMovesCenterFirst ==
  op = "getValidMoves" =>
    LET moves == ret.moves
    IN  /\ {moves[i] : i \in 1..Len(moves)} = {c \in ColIdx : ~Full(B, c)}
        /\ Len(moves) = Cardinality({c \in ColIdx : ~Full(B, c)})
        /\ \A i, j \in 1..Len(moves) :
             i < j => CenterRank(moves[i]) < CenterRank(moves[j])
        /\ (\A c \in ColIdx, r \in RowIdx : B[c][r] = 0) => moves = <<3, 2, 4, 1, 5, 0, 6>>
        /\ (\A c \in ColIdx : Full(B, c)) => moves = <<>>

\* Some columns full, several not.
ValidMovesWitness ==
  /\ op = "getValidMoves"
  /\ Len(ret.moves) \in 2..5
  /\ \E i \in 1..(Len(ret.moves) - 1) : ret.moves[i] > ret.moves[i + 1]
  /\ \E i \in 1..(Len(ret.moves) - 1) : ret.moves[i] < ret.moves[i + 1]

\* C11 (SpecQuery): countPieces equals the number of placePiece calls that did
\* not return -1; checkDraw is true exactly when countPieces is 42, and
\* exactly when getValidMoves is empty.
FullnessAgrees ==
  LET b == B
  IN  /\ op = "countPieces" => ret.val = placed
      /\ op = "checkDraw" =>
           /\ ret.flag <=> (countPieces(b) = 42)
           /\ ret.flag <=> (getValidMoves(b) = <<>>)

\* checkDraw has answered true, after 42 placements.
FullnessWitness ==
  /\ op = "checkDraw"
  /\ ret.flag
  /\ placed = 42

\* The number of occupied cells of column c: with C3, the number of
\* placePiece calls into c that did not return -1.
Height(b, c) == Cardinality({r \in RowIdx : b[c][r] # 0})

\* C12 (SpecQuery): getLowestEmptyRow(board, c) returns 0 on the empty board,
\* k after k successful placements into c for k < 6 and -1 for k = 6, whatever
\* the other columns hold, and returns for every column index 0..6.
LowestRowIsHeight ==
  op = "getLowestEmptyRow" =>
    LET b == B
        k == Height(b, args.col)
    IN  /\ ret.val = (IF k = ROWS THEN -1 ELSE k)
        /\ (\A c \in ColIdx : Height(b, c) = 0) => ret.val = 0

\* A full column next to columns that are not full.
LowestRowWitness ==
  /\ op = "getLowestEmptyRow"
  /\ ret.val = -1
  /\ Height(B, args.col) = ROWS
  /\ \E c \in ColIdx : Height(B, c) < ROWS

\* The addresses of the column arrays of a board object.
Storage(b) == {b[c] : c \in ColIdx}

\* C13 (SpecClone): cloneBoard(board) returns a board equal cell for cell to
\* board that shares no column array with it; a placement into the clone
\* changes no cell of the source, a placement into the source no cell of the
\* clone.
CloneIndependent ==
  [][/\ op' = "cloneBoard" =>
          /\ deref(heap', ret'.obj) = B
          /\ B' = B
          /\ Storage(ret'.obj) \cap Storage(board) = {}
     /\ op' = "placeClone" =>
          /\ B' = B
          /\ ret'.val # -1 =>
               deref(heap', ret.obj)
                 = [deref(heap, ret.obj) EXCEPT ![args'.col][ret'.val] = args'.player]
     /\ op' = "placeSource" =>
          /\ deref(heap', ret.obj) = deref(heap, ret.obj)
          /\ ret'.val # -1 =>
               B' = [B EXCEPT ![args'.col][ret'.val] = args'.player]]_vars

\* Source and clone have each received a piece the other does not hold.
CloneWitness ==
  /\ Cloned
  /\ \E c \in ColIdx, r \in RowIdx : B[c][r] # 0 /\ deref(heap, ret.obj)[c][r] = 0
  /\ \E c \in ColIdx, r \in RowIdx : B[c][r] = 0 /\ deref(heap, ret.obj)[c][r] # 0
  /\ \E c \in ColIdx, r \in RowIdx : B[c][r] # 0 /\ deref(heap, ret.obj)[c][r] = B[c][r]

\* The board whose only piece is player's, at (c, r).
Single(c, r, player) ==
  [cc \in ColIdx |-> [rr \in RowIdx |-> IF cc = c /\ rr = r THEN player ELSE 0]]

\* C14 (SpecEval): evaluateBoard is 0 on the empty board, > 0 on the board
\* with a single player-2 piece at the bottom of column 3 and < 0 on the board
\* with a single player-1 piece there.
EvaluateCentrePiece ==
  op = "evaluateBoard" =>
    LET b == B
    IN  /\ (\A c \in ColIdx, r \in RowIdx : b[c][r] = 0) => ret.val = 0
        /\ b = Single(3, 0, 2) => ret.val > 0
        /\ b = Single(3, 0, 1) => ret.val < 0

EvaluateCentreWitness ==
  /\ op = "evaluateBoard"
  /\ B = Single(3, 0, 1)
  /\ ret.val < 0

\* The 4-cell lines of the grid, as sets of cells.
Lines ==
  {L \in {{<<c + k * d[1], r + k * d[2]>> : k \in 0..3} :
            c \in ColIdx, r \in RowIdx, d \in {<<1, 0>>, <<0, 1>>, <<1, 1>>, <<1, -1>>}} :
     L \subseteq ColIdx \X RowIdx}

\* Line L holds exactly n cells of player and 4 - n empty cells.
Holds(b, L, player, n) ==
  /\ Cardinality({x \in L : b[x[1]][x[2]] = player}) = n
  /\ Cardinality({x \in L : b[x[1]][x[2]] = 0}) = 4 - n

Threes(b, player) == Cardinality({L \in Lines : Holds(b, L, player, 3)})
Twos(b, player) == Cardinality({L \in Lines : Holds(b, L, player, 2)})

CellsOf(b, cols, player) ==
  Cardinality({x \in cols \X RowIdx : b[x[1]][x[2]] = player})

Positional(b) ==
  3 * (CellsOf(b, {3}, 2) - CellsOf(b, {3}, 1))
  + 2 * (CellsOf(b, {2, 4}, 2) - CellsOf(b, {2, 4}, 1))

RefEvaluate(b) ==
  Positional(b) + 50 * (Threes(b, 2) - Threes(b, 1)) + 10 * (Twos(b, 2) - Twos(b, 1))

\* The only pattern on the board is one n-pattern of player.
OnlyPattern(b, player, n) ==
  /\ Threes(b, player) = (IF n = 3 THEN 1 ELSE 0)
  /\ Twos(b, player) = (IF n = 2 THEN 1 ELSE 0)
  /\ Threes(b, 3 - player) = 0
  /\ Twos(b, 3 - player) = 0

swapPlayers(b) == [c \in ColIdx |-> [r \in RowIdx |-> IF b[c][r] = 0 THEN 0 ELSE 3 - b[c][r]]]

\* C34 (SpecEval): evaluateBoard is antisymmetric under exchanging the
\* players: evaluateBoard of the exchanged board is -evaluateBoard(b) for every board b.
EvaluateAntisymmetric ==
  op = "evaluateBoard" => evaluateBoard(swapPlayers(B)) = -ret.val

\* Every term of the sum is at work: player 2 has a three-pattern, player 1
\* a two-pattern, the weighted columns favour player 1, and the evaluation
\* is positive while that of the exchanged board is negative.
EvaluateAntisymmetricWitness ==
  /\ op = "evaluateBoard"
  /\ ret.val > 0
  /\ Threes(B, 2) > 0
  /\ Twos(B, 1) > 0
  /\ Positional(B) < 0
  /\ evaluateBoard(swapPlayers(B)) < 0

\* C19 as stated (SpecEval): on every board whose column 3 is not full, a
\* player-2 piece placed in column 3 makes evaluateBoard strictly larger and a
\* player-1 piece strictly smaller.
CentreAlwaysGains ==
  op = "evaluateCentre" =>
    /\ args.player = 2 => ret.val > ret.prev
    /\ args.player = 1 => ret.val < ret.prev

\* C19 amended (SpecEval): the same, for a placement that does not complete a
\* line of four of the placed piece's owner.  (A completed line stops being a
\* three-pattern and counts for nothing.)
CentreGainsUnlessFour ==
  (op = "evaluateCentre" /\ ~HasRun(B, args.col, args.row, args.player)) =>
    /\ args.player = 2 => ret.val > ret.prev
    /\ args.player = 1 => ret.val < ret.prev

\* The placement turned a two-pattern of its owner into a three-pattern and
\* broke a pattern of the other player, on a board with several pieces.
CentreGainsWitness ==
  /\ op = "evaluateCentre"
  /\ ~HasRun(B, args.col, args.row, args.player)
  /\ args.row >= 1
  /\ LET before == [B EXCEPT ![args.col][args.row] = 0]
     IN  /\ Threes(B, args.player) > Threes(before, args.player)
         /\ Threes(B, 3 - args.player) + Twos(B, 3 - args.player)
              < Threes(before, 3 - args.player) + Twos(before, 3 - args.player)

\* C15 (SpecCpu): minimax at remaining depth d >= 1 on a board where the player
\* to move has a winning column returns 100000 + d on a maximizing turn and
\* -100000 - d on a minimizing turn; every other result lies strictly between
\* -100000 - d and 100000 + d, so a win (loss) found deeper in the search, with
\* less remaining depth, scores strictly lower (higher).
DepthBiasedScores ==
  (op = "minimax" /\ args.depth >= 1) =>
    LET d    == args.depth
        wins == WinningCols(B, IF args.isMaximizing THEN 2 ELSE 1) # {}
    IN  /\ (wins /\ args.isMaximizing) => ret.val = 100000 + d
        /\ (wins /\ ~args.isMaximizing) => ret.val = -100000 - d
        /\ ~wins => (ret.val < 100000 + d /\ ret.val > -100000 - d)
        /\ ret.val >= 100000 => \E k \in 1..d : ret.val = 100000 + k
        /\ ret.val <= -100000 => \E k \in 1..d : ret.val = -100000 - k

\* An immediate win found with remaining depth 2 or more.
DepthBiasedWitness ==
  /\ op = "minimax"
  /\ args.depth >= 2
  /\ args.isMaximizing
  /\ WinningCols(B, 2) # {}
  /\ ret.val = 100000 + args.depth

\* The scores getCpuMove compares: minimax of the board after the CPU's piece
\* in each open column, in centre-first order.
SearchScores(h, bo) ==
  LET moves == OpenInOrder(deref(h, bo))
  IN  [i \in 1..Len(moves) |->
         LET sim == simulateMove(h, bo, moves[i], 2)
         IN  minimax(sim.heap, sim.newBoard, SEARCH_DEPTH - 1,
                     NegInfinity, Infinity, FALSE).score]

\* C16 (SpecCpu): when neither player has a winning column, getCpuMove returns
\* a column whose minimax score is maximal among the open columns, and the
\* first such column in the order 3,2,4,1,5,0,6.
BestScoreFirst ==
  (op = "getCpuMove" /\ ret.threw = "" /\ WinningCols(B, 2) = {} /\ WinningCols(B, 1) = {})
    => LET moves  == OpenInOrder(B)
           scores == SearchScores(heap, board)
       IN  \E i \in 1..Len(moves) :
             /\ ret.val = moves[i]
             /\ \A j \in 1..Len(moves) : scores[j] <= scores[i]
             /\ \A j \in 1..(i - 1) : scores[j] < scores[i]

\* Two columns share the best score, a third scores less, and the first of
\* the two is returned.
BestScoreWitness ==
  /\ op = "getCpuMove"
  /\ ret.threw = ""
  /\ WinningCols(B, 2) = {}
  /\ WinningCols(B, 1) = {}
  /\ LET moves  == OpenInOrder(B)
         scores == SearchScores(heap, board)
     IN  \E i, j, k \in 1..Len(moves) :
           /\ i < j
           /\ ret.val = moves[i]
           /\ scores[j] = scores[i]
           /\ scores[k] < scores[i]

\* C17 (SpecOpening): on the empty board getCpuMove, searching SEARCH_DEPTH = 6
\* plies, returns column 3, 2 or 4.
OpensInCentre ==
  (op = "getCpuMove" /\ \A c \in ColIdx, r \in RowIdx : B[c][r] = 0)
    => (ret.threw = "" /\ ret.val \in {3, 2, 4})

\* The search has run on the empty board, leaving loops through cut-offs.
OpensInCentreWitness ==
  /\ op = "getCpuMove"
  /\ placed = 0
  /\ \A c \in ColIdx, r \in RowIdx : B[c][r] = 0
  /\ ret.val \in {3, 2, 4}
  /\ ret.cuts > 0

\* C20 (SpecSearch): on a board without a non-full column minimax returns 0
\* for every remaining depth, depth 0 included, every window and either turn;
\* with a non-full column and depth 0 it returns evaluateBoard(board).
TerminalPriority ==
  op = "minimaxWindow" =>
    LET b == B
    IN  /\ (\A c \in ColIdx : Full(b, c)) => ret.val = 0
        /\ ((\E c \in ColIdx : ~Full(b, c)) /\ args.depth = 0)
             => ret.val = evaluateBoard(b)

\* A full board whose heuristic value is not 0, searched at depth 0 with a
\* window that does not hold 0.
TerminalWitness ==
  /\ op = "minimaxWindow"
  /\ \A c \in ColIdx : Full(B, c)
  /\ args.depth = 0
  /\ args.alpha > 0
  /\ evaluateBoard(B) # 0
  /\ ret.val = 0

RECURSIVE CanForce(_, _, _, _)
CanForce(b, depth, player, toMove) ==
  IF depth = 0 \/ \A c \in ColIdx : Full(b, c) THEN FALSE
  ELSE IF toMove = player
       THEN \E c \in ColIdx :
              /\ ~Full(b, c)
              /\ \/ WinsAt(b, c, player)
                 \/ CanForce(Dropped(b, c, player), depth - 1, player, 3 - player)
       ELSE /\ WinningCols(b, toMove) = {}
            /\ \A c \in ColIdx :
                 ~Full(b, c) => CanForce(Dropped(b, c, toMove), depth - 1, player, player)

\* C23 (SpecCpu): heuristic and forced scores do not overlap.  A search of
\* depth 0 returns the evaluation, strictly between -100000 and 100000; a
\* full-window result is >= 100000 exactly when player 2 can force a
\* four-in-a-row within the depth, and <= -100000 exactly when player 1 can.
ForcedScoresApart ==
  op = "minimax" =>
    LET mover == IF args.isMaximizing THEN 2 ELSE 1
    IN  /\ args.depth = 0 => (-100000 < ret.val /\ ret.val < 100000)
        /\ ret.val >= 100000 <=> CanForce(B, args.depth, 2, mover)
        /\ ret.val <= -100000 <=> CanForce(B, args.depth, 1, mover)

\* Player 2 has no winning column now and still forces the win in three plies.
ForcedScoresWitness ==
  /\ op = "minimax"
  /\ args.isMaximizing
  /\ args.depth = 3
  /\ WinningCols(B, 2) = {}
  /\ ret.val >= 100000
  /\ CanForce(B, 3, 2, 2)

\* C24 (SpecCpu): on a board with a column that is not full, getCpuMove
\* returns a column of 0..6 that is not full, whichever of its three return
\* statements is taken, and placePiece with that column does not return -1.
CpuMoveLegal ==
  (op = "getCpuMove" /\ \E c \in ColIdx : ~Full(B, c)) =>
    /\ ret.threw = ""
    /\ ret.val \in ColIdx
    /\ ~Full(B, ret.val)
    /\ placePiece(heap, board, ret.val, 2).ret # -1

\* The column came from the search: neither player had a winning column,
\* and some other column was full.
CpuMoveLegalWitness ==
  /\ op = "getCpuMove"
  /\ ret.threw = ""
  /\ WinningCols(B, 2) = {}
  /\ WinningCols(B, 1) = {}
  /\ \E c \in ColIdx : Full(B, c)
  /\ ~Full(B, ret.val)

(***************************************************************************)
(* The game page, main.ts.  Its handlers run to completion one at a time   *)
(* on the event loop; what is pending between them is the set of pellets   *)
(* whose drop animation has not ended, the timeouts set by triggerCpuMove  *)
(* and the interval of the turn timer.  A handler is a function from the   *)
(* state it starts in to the state it leaves.                              *)
(***************************************************************************)
MaxUiEmpty == 2
MaxUiPieces == 2
MaxScore == 2
MaxPending == 2
MaxTicks == 1

\* The module state and the browser's queues as one record; row and threw
\* are what the handler's last placePiece returned and getCpuMove threw.
Now ==
  [heap |-> heap, boardState |-> board, placed |-> placed,
   gameMode |-> gameMode, currentPlayer |-> currentPlayer, gameOver |-> gameOver,
   player1Score |-> player1Score, player2Score |-> player2Score,
   isPaused |-> isPaused, isDropping |-> isDropping,
   roundStartingPlayer |-> roundStartingPlayer, turnTimer |-> turnTimer,
   timeRemaining |-> timeRemaining, cpuMoveTimeout |-> cpuMoveTimeout,
   timeouts |-> timeouts, intervals |-> intervals, pellets |-> pellets,
   lastPiece |-> lastPiece, roundScore |-> roundScore,
   row |-> -1, threw |-> ""]

\* The id a new timer gets: one that no pending timer has.
freshId(used) == CHOOSE i \in 1..(Cardinality(used) + 1) : i \notin used

Range(seq) == {seq[i] : i \in 1..Len(seq)}

cancelCpuMove(s) ==
  IF s.cpuMoveTimeout # null
  THEN [s EXCEPT !.timeouts = SelectSeq(@, LAMBDA id : id # s.cpuMoveTimeout),
                 !.cpuMoveTimeout = null]
  ELSE s

isCpuTurn(s) == s.gameMode = "cpu" /\ s.currentPlayer = 2

stopTurnTimer(s) ==
  IF s.turnTimer # null
  THEN [s EXCEPT !.intervals = @ \ {s.turnTimer}, !.turnTimer = null]
  ELSE s

handleTimeoutWin(s, winner) ==
  [stopTurnTimer(s) EXCEPT !.gameOver = TRUE,
                           !.player1Score = IF winner = 1 THEN @ + 1 ELSE @,
                           !.player2Score = IF winner = 1 THEN @ ELSE @ + 1]

\* turnTimer = window.setInterval(...)
setInterval(s) ==
  LET id == freshId(s.intervals)
  IN  [s EXCEPT !.intervals = @ \cup {id}, !.turnTimer = id]

resumeTurnTimer(s) ==
  IF s.turnTimer # null \/ s.gameOver THEN s ELSE setInterval(s)

startTurnTimer(s) ==
  setInterval([stopTurnTimer(s) EXCEPT !.timeRemaining = TURN_TIME_LIMIT])

\* The callback of the interval: one second of the turn has passed.
intervalCallback(s) ==
  LET t == [s EXCEPT !.timeRemaining = @ - 1]
  IN  IF t.timeRemaining <= 0
      THEN handleTimeoutWin(t, IF t.currentPlayer = 1 THEN 2 ELSE 1)
      ELSE t

triggerCpuMove(s) ==
  LET id == freshId(Range(s.timeouts))
  IN  [s EXCEPT !.timeouts = Append(@, id), !.cpuMoveTimeout = id]

restartGameKeepsDrop(s) ==
  LET a  == cancelCpuMove(s)
      nb == createBoard(<<>>)
      b  == [a EXCEPT !.pellets = {}, !.heap = nb.heap, !.boardState = nb.board,
                      !.placed = 0, !.lastPiece = 0,
                      !.roundScore = a.player1Score + a.player2Score,
                      !.roundStartingPlayer =
                         IF a.gameOver THEN (IF @ = 1 THEN 2 ELSE 1) ELSE @]
      c  == [b EXCEPT !.currentPlayer = b.roundStartingPlayer, !.gameOver = FALSE,
                      !.isPaused = FALSE]
  IN  IF isCpuTurn(c) THEN triggerCpuMove(c) ELSE startTurnTimer(c)

restartGameAlwaysSwitches(s) ==
  LET a  == cancelCpuMove(s)
      nb == createBoard(<<>>)
      b  == [a EXCEPT !.pellets = {}, !.heap = nb.heap, !.boardState = nb.board,
                      !.placed = 0, !.lastPiece = 0,
                      !.roundScore = a.player1Score + a.player2Score,
                      !.roundStartingPlayer = IF @ = 1 THEN 2 ELSE 1]
      c  == [b EXCEPT !.currentPlayer = b.roundStartingPlayer, !.gameOver = FALSE,
                      !.isPaused = FALSE, !.isDropping = FALSE]
  IN  IF isCpuTurn(c) THEN triggerCpuMove(c) ELSE startTurnTimer(c)

\* clearBoard removes the pellets, and with them their listeners; the old
\* board is garbage once boardState is the new one.
restartGame(s) ==
  LET a  == cancelCpuMove(s)
      nb == createBoard(<<>>)
      b  == [a EXCEPT !.pellets = {}, !.heap = nb.heap, !.boardState = nb.board,
                      !.placed = 0, !.lastPiece = 0,
                      !.roundScore = a.player1Score + a.player2Score,
                      !.roundStartingPlayer =
                         IF a.gameOver THEN (IF @ = 1 THEN 2 ELSE 1) ELSE @]
      c  == [b EXCEPT !.currentPlayer = b.roundStartingPlayer, !.gameOver = FALSE,
                      !.isPaused = FALSE, !.isDropping = FALSE]
  IN  IF isCpuTurn(c) THEN triggerCpuMove(c) ELSE startTurnTimer(c)

openPauseDialog(s) ==
  cancelCpuMove(stopTurnTimer([s EXCEPT !.isPaused = TRUE]))

closePauseDialog(s) ==
  LET a == [s EXCEPT !.isPaused = FALSE]
  IN  IF isCpuTurn(a) THEN triggerCpuMove(a) ELSE resumeTurnTimer(a)

\* makeMove up to its return; the listener it registers is animationend.
makeMove(s, col) ==
  LET pp == placePiece(s.heap, s.boardState, col, s.currentPlayer)
  IN  IF pp.ret = -1 THEN s
      ELSE [stopTurnTimer(s) EXCEPT
              !.heap = pp.heap, !.placed = @ + 1, !.row = pp.ret,
              !.isDropping = TRUE, !.lastPiece = s.currentPlayer,
              !.pellets = @ \cup {[col |-> col, row |-> pp.ret,
                                   player |-> s.currentPlayer]}]

\* The animationend listener of pellet p, which runs once.
animationend(s, p) ==
  LET b == deref(s.heap, s.boardState)
      l == [s EXCEPT !.pellets = @ \ {p}]
      e == IF checkWin(b, p.col, p.row, p.player)
           THEN [stopTurnTimer(l) EXCEPT
                   !.gameOver = TRUE,
                   !.player1Score = IF p.player = 1 THEN @ + 1 ELSE @,
                   !.player2Score = IF p.player = 1 THEN @ ELSE @ + 1]
           ELSE IF checkDraw(b)
           THEN [stopTurnTimer(l) EXCEPT !.gameOver = TRUE]
           ELSE LET a == [l EXCEPT !.currentPlayer = IF @ = 1 THEN 2 ELSE 1]
                IN  IF isCpuTurn(a) THEN triggerCpuMove(a) ELSE startTurnTimer(a)
  IN  [e EXCEPT !.isDropping = FALSE]

\* The end of the callback, g being what getCpuMove(boardState) gave.
makeCpuMove(s, g) ==
  IF g.threw # "" THEN [s EXCEPT !.threw = g.threw]
  ELSE makeMove([s EXCEPT !.heap = g.heap], g.col)

\* The callback of the oldest pending timeout; getCpuMove is called once,
\* g being what it gave.
timeoutCallback(s) ==
  IF s.gameOver \/ s.isPaused
  THEN [s EXCEPT !.timeouts = Tail(@), !.cpuMoveTimeout = null]
  ELSE CHOOSE t \in
         {makeCpuMove([s EXCEPT !.timeouts = Tail(@), !.cpuMoveTimeout = null], g) :
            g \in {getCpuMove(s.heap, s.boardState)}} : TRUE

clickIgnoredWhenOver(s) == s.isPaused \/ s.isDropping \/ isCpuTurn(s)

\* The guard of the click listener of a column zone.
clickIgnored(s) == s.gameOver \/ s.isPaused \/ s.isDropping \/ isCpuTurn(s)

zoneClick(s, col) == IF clickIgnored(s) THEN s ELSE makeMove(s, col)

\* The handler leaves the page in state s; handlers that leave more than
\* MaxPending timeouts pending are not followed.
Becomes(s) ==
  /\ Len(s.timeouts) <= MaxPending
  /\ heap' = s.heap
  /\ board' = s.boardState
  /\ placed' = s.placed
  /\ gameMode' = s.gameMode
  /\ currentPlayer' = s.currentPlayer
  /\ gameOver' = s.gameOver
  /\ player1Score' = s.player1Score
  /\ player2Score' = s.player2Score
  /\ isPaused' = s.isPaused
  /\ isDropping' = s.isDropping
  /\ roundStartingPlayer' = s.roundStartingPlayer
  /\ turnTimer' = s.turnTimer
  /\ timeRemaining' = s.timeRemaining
  /\ cpuMoveTimeout' = s.cpuMoveTimeout
  /\ timeouts' = s.timeouts
  /\ intervals' = s.intervals
  /\ pellets' = s.pellets
  /\ lastPiece' = s.lastPiece
  /\ roundScore' = s.roundScore
  /\ calls' = calls
  /\ ret' = [NoRet EXCEPT !.val = s.row, !.threw = s.threw]

\* The page is in state s.
PageIs(s) ==
  /\ heap = s.heap
  /\ board = s.boardState
  /\ placed = s.placed
  /\ gameMode = s.gameMode
  /\ currentPlayer = s.currentPlayer
  /\ gameOver = s.gameOver
  /\ player1Score = s.player1Score
  /\ player2Score = s.player2Score
  /\ isPaused = s.isPaused
  /\ isDropping = s.isDropping
  /\ roundStartingPlayer = s.roundStartingPlayer
  /\ turnTimer = s.turnTimer
  /\ timeRemaining = s.timeRemaining
  /\ cpuMoveTimeout = s.cpuMoveTimeout
  /\ timeouts = s.timeouts
  /\ intervals = s.intervals
  /\ pellets = s.pellets
  /\ lastPiece = s.lastPiece
  /\ roundScore = s.roundScore
  /\ calls = <<>>
  /\ ret = NoRet

\* The values of the module's declarations.
Loaded(mode) ==
  [heap |-> <<>>, boardState |-> <<>>, placed |-> 0,
   gameMode |-> mode, currentPlayer |-> 1, gameOver |-> FALSE,
   player1Score |-> 0, player2Score |-> 0, isPaused |-> FALSE,
   isDropping |-> FALSE, roundStartingPlayer |-> 1, turnTimer |-> null,
   timeRemaining |-> TURN_TIME_LIMIT, cpuMoveTimeout |-> null,
   timeouts |-> <<>>, intervals |-> {}, pellets |-> {},
   lastPiece |-> 0, roundScore |-> 0, row |-> -1, threw |-> ""]

initGame(s) ==
  LET nb == createBoard(<<>>)
  IN  startTurnTimer([s EXCEPT !.heap = nb.heap, !.boardState = nb.board,
                               !.currentPlayer = 1, !.gameOver = FALSE])

GameModes == {"pvp", "cpu"}

\* The page after DOMContentLoaded, in either game mode.
InitUi ==
  \E mode \in GameModes :
    /\ PageIs(initGame(Loaded(mode)))
    /\ op = "initGame"
    /\ args = NoArgs

\* A game of 42 moves that ends in a draw, player 1 moving first: the full
\* board by columns, bottom row first, and the columns of its last moves.
DrawnGame ==
  << <<2, 2, 1, 1, 2, 1>>, <<2, 1, 1, 1, 2, 1>>, <<1, 2, 2, 1, 2, 2>>,
     <<1, 2, 1, 2, 1, 2>>, <<2, 2, 1, 1, 1, 2>>, <<1, 1, 2, 2, 2, 1>>,
     <<1, 2, 1, 2, 2, 1>> >>

LastMoves == <<5, 3, 3, 5, 4>>

\* Cells of column c that the last e moves of the game filled.
undone(e, c) ==
  Cardinality({i \in 1..Len(LastMoves) : i > Len(LastMoves) - e /\ LastMoves[i] = c})

\* The game with its last e moves not yet made; with swap, the same game
\* with player 2 moving first.
midGame(e, swap) ==
  [i \in 1..COLS |->
     [r \in RowIdx |->
        IF r >= ROWS - undone(e, i - 1) THEN 0
        ELSE IF swap THEN 3 - DrawnGame[i][r + 1] ELSE DrawnGame[i][r + 1]]]

\* The page when the animation of the last piece before those moves has
\* ended: the round was started by first, the mover's turn has begun, and
\* left seconds remain on the clock.
midRound(mode, first, left) ==
  LET mover == IF MaxUiEmpty % 2 = 0 THEN first ELSE 3 - first
      s == [Loaded(mode) EXCEPT
              !.heap = midGame(MaxUiEmpty, first = 2),
              !.boardState = [c \in ColIdx |-> c + 1],
              !.placed = COLS * ROWS - MaxUiEmpty,
              !.currentPlayer = mover,
              !.roundStartingPlayer = first,
              !.lastPiece = 3 - mover]
  IN  IF isCpuTurn(s) THEN [triggerCpuMove(s) EXCEPT !.timeRemaining = left]
      ELSE [startTurnTimer(s) EXCEPT !.timeRemaining = left]

InitMidRound ==
  \E mode \in GameModes, first \in Players, left \in {TURN_TIME_LIMIT, 1} :
    /\ PageIs(midRound(mode, first, left))
    /\ op = "animationend"
    /\ args = NoArgs

\* Moves are followed on boards with few pieces or few empty cells.
InReach(s) == s.placed < MaxUiPieces \/ s.placed >= COLS * ROWS - MaxUiEmpty

\* A click on the zone of column col.
ZoneClick(col) ==
  /\ clickIgnored(Now) \/ InReach(Now)
  /\ Becomes(zoneClick(Now, col))
  /\ op' = "click"
  /\ args' = [NoArgs EXCEPT !.col = col]

\* The drop animation of pellet p ends.
AnimationEnd(p) ==
  \E res \in {animationend(Now, p)} :
    /\ Becomes(res)
    /\ op' = "animationend"
    /\ args' = [NoArgs EXCEPT !.col = p.col, !.row = p.row, !.player = p.player]

\* The interval of the turn timer fires; it is followed through the first
\* and the last MaxTicks seconds of a turn.
IntervalFires ==
  /\ intervals # {}
  /\ timeRemaining > TURN_TIME_LIMIT - MaxTicks \/ timeRemaining <= MaxTicks
  /\ Becomes(intervalCallback(Now))
  /\ op' = "interval"
  /\ args' = NoArgs

\* The oldest timeout set by triggerCpuMove fires: all have the delay
\* CPU_DELAY_MS, so they fire in the order they were set.  getCpuMove is
\* followed on boards with at most MaxUiEmpty empty cells.
TimeoutFires ==
  /\ timeouts # <<>>
  /\ gameOver \/ isPaused \/ placed >= COLS * ROWS - MaxUiEmpty
  /\ \E res \in {timeoutCallback(Now)} :
       /\ Becomes(res)
       /\ op' = "timeout"
       /\ args' = NoArgs

\* The menu button, which the open dialog covers.
MenuClick ==
  /\ ~isPaused
  /\ Becomes(openPauseDialog(Now))
  /\ op' = "menu"
  /\ args' = NoArgs

\* The continue button of the dialog.
ContinueClick ==
  /\ isPaused
  /\ Becomes(closePauseDialog(Now))
  /\ op' = "continue"
  /\ args' = NoArgs

\* The restart and play-again buttons of the page.
RestartClick ==
  /\ ~isPaused
  /\ player1Score + player2Score < MaxScore
  /\ Becomes(restartGame(Now))
  /\ op' = "restart"
  /\ args' = NoArgs

\* The restart button of the dialog.
DialogRestartClick ==
  /\ isPaused
  /\ player1Score + player2Score < MaxScore
  /\ Becomes(restartGame(closePauseDialog(Now)))
  /\ op' = "dialogRestart"
  /\ args' = NoArgs

NextUi ==
  \/ \E col \in ColIdx : ZoneClick(col)
  \/ \E p \in pellets : AnimationEnd(p)
  \/ IntervalFires
  \/ TimeoutFires
  \/ MenuClick
  \/ ContinueClick
  \/ RestartClick
  \/ DialogRestartClick

SpecUi == (InitUi \/ InitMidRound) /\ [][NextUi]_vars

\* C25 (SpecUi): turns alternate.  A piece written to boardState never has
\* the owner of the piece written before it in the same round, and a piece
\* written by the timeout callback is player 2's, written in CPU mode while
\* no drop animation is in progress.
TurnsAlternate ==
  [][placed' = placed + 1 =>
       /\ lastPiece' # lastPiece
       /\ op' = "timeout" => (gameMode = "cpu" /\ lastPiece' = 2 /\ ~isDropping)]_vars

\* C26 (SpecUi): while gameOver or isPaused is true no piece is written to
\* boardState: a column click leaves the page as it is, and a timeout
\* callback only clears cpuMoveTimeout, having called neither getCpuMove
\* nor makeMove.
NoMoveWhenStopped ==
  [][(gameOver \/ isPaused) =>
       /\ placed' # placed + 1
       /\ op' = "click" => UNCHANGED <<heap, board, placed, uiVars, calls>>
       /\ op' = "timeout" =>
            /\ cpuMoveTimeout' = null
            /\ ret'.threw = ""
            /\ UNCHANGED <<heap, board, placed, pellets, isDropping, lastPiece,
                           currentPlayer, gameOver, isPaused, turnTimer>>]_vars

\* A timeout callback has fired while the pause dialog was open.
NoMoveWitness ==
  /\ op = "timeout"
  /\ isPaused
  /\ ret.val = -1
  /\ cpuMoveTimeout = null

\* C27 (SpecUi): while isPaused is true turnTimer is null, timeRemaining
\* does not decrease and the interval callback, which awards the timeout
\* win, does not run.
PausedTimerStopped ==
  [][isPaused =>
       /\ turnTimer = null
       /\ isPaused' => (timeRemaining' >= timeRemaining /\ op' # "interval")]_vars

\* C28 (SpecUi): at most one timeout set by triggerCpuMove is pending, and
\* cpuMoveTimeout is its id; none is pending when cancelCpuMove has run
\* and no new one was set after it.
SingleCpuTimeout ==
  /\ Len(timeouts) <= 1
  /\ timeouts # <<>> => cpuMoveTimeout = timeouts[1]
  /\ op = "menu" => timeouts = <<>>

\* C29 (SpecUi): the timeout callback never calls getCpuMove on a full
\* board, so 'No valid moves available' is never thrown.
NeverSearchesFullBoard ==
  op = "timeout" => ret.threw = ""

\* C30 (SpecUi): within a round the scores grow by at most one point in
\* total.
OnePointPerRound ==
  player1Score + player2Score <= roundScore + 1

\* A step of restartGame: the restart buttons of the page and of the dialog.
Restarts == op' \in {"restart", "dialogRestart"}

\* C31 (SpecUi): restartGame leaves player1Score and player2Score unchanged
\* and resets the round: boardState becomes a board with every cell empty,
\* gameOver, isPaused and isDropping become false, and currentPlayer becomes
\* roundStartingPlayer.
RestartResetsRound ==
  [][Restarts =>
       /\ player1Score' = player1Score
       /\ player2Score' = player2Score
       /\ \A c \in ColIdx, r \in RowIdx : B'[c][r] = 0
       /\ ~gameOver' /\ ~isPaused' /\ ~isDropping'
       /\ currentPlayer' = roundStartingPlayer']_vars

\* A restart after a finished round that was left during a drop: a point is
\* on the scoreboard, and the restarted round is player 2's to start.
RestartResetsWitness ==
  /\ op \in {"restart", "dialogRestart"}
  /\ player1Score + player2Score > 0
  /\ roundStartingPlayer = 2
  /\ currentPlayer = 2
  /\ placed = 0

\* C32 (SpecUi): restartGame switches roundStartingPlayer to the other
\* player exactly when gameOver was true in the round being left, and no
\* other handler changes roundStartingPlayer.
StarterAlternates ==
  [][/\ Restarts =>
          (roundStartingPlayer' = 3 - roundStartingPlayer <=> gameOver)
     /\ roundStartingPlayer' \in Players
     /\ ~Restarts => roundStartingPlayer' = roundStartingPlayer]_vars

\* The restart button of the dialog has started a round that player 2
\* starts, one point being on the scoreboard.
StarterAlternatesWitness ==
  /\ op = "dialogRestart"
  /\ roundStartingPlayer = 2
  /\ player1Score + player2Score = 1
  /\ placed = 0
  /\ ~isPaused

\* TimeoutFires is enabled: a timeout is pending and its callback is followed.
TimeoutDue ==
  /\ timeouts # <<>>
  /\ gameOver \/ isPaused \/ placed >= COLS * ROWS - MaxUiEmpty

\* The browser runs the callback of a pending timeout, and a drop animation
\* that has started ends.  The first is weak fairness of TimeoutFires written
\* out, with TimeoutDue for its enabling condition: a step of NextUi that
\* leaves op = "timeout" is a step of TimeoutFires.
SpecUiFair ==
  /\ (InitUi \/ InitMidRound)
  /\ [][NextUi]_vars
  /\ ([]<>(~TimeoutDue) \/ []<><<op' = "timeout">>_vars)
  /\ WF_vars(\E p \in pellets : AnimationEnd(p))

\* It is the CPU's turn to move in a round that is not over, on a board the
\* timeout callback is followed on.
CpuToMove ==
  /\ gameMode = "cpu"
  /\ currentPlayer = 2
  /\ ~gameOver
  /\ ~isDropping
  /\ placed >= COLS * ROWS - MaxUiEmpty

\* The timeout callback has placed a piece of player 2.
CpuMoved == op = "timeout" /\ ret.val # -1 /\ lastPiece = 2 /\ isDropping

\* C33 (SpecUiFair): in CPU mode, whenever it is the CPU's turn in a round
\* that is not over, the timeout callback eventually places a piece of
\* player 2 unless the game is paused or restarted; and after Continue on
\* the CPU's turn the CPU move is scheduled again.
CpuEventuallyMoves ==
  /\ [](op = "continue" /\ isCpuTurn(Now) /\ ~gameOver =>
         cpuMoveTimeout # null /\ cpuMoveTimeout \in Range(timeouts))
  /\ (CpuToMove /\ ~isPaused) ~>
         (CpuMoved \/ isPaused \/ op \in {"restart", "dialogRestart"})

\* With C33: when no interval of the turn timer is running on the CPU's
\* turn, the timeout callback does place the piece.
CpuMovesWhenTimerStopped ==
  (CpuToMove /\ ~isPaused /\ intervals = {}) ~>
     (CpuMoved \/ isPaused \/ op \in {"restart", "dialogRestart"})

(***************************************************************************)
(* getCpuMove step by step.  calls holds one frame for getCpuMove and one  *)
(* for every minimax call that has not returned; a step enters a call,     *)
(* runs one iteration of a loop up to its recursive call, or returns.      *)
(***************************************************************************)
nextDepthSame(depth) == depth

\* The depth argument of a recursive minimax call.
nextDepth(depth) == depth - 1

Frame(fn, b, base, depth, alpha, beta, isMaximizing) ==
  [fn |-> fn, b |-> b, base |-> base, depth |-> depth, alpha |-> alpha,
   beta |-> beta, isMaximizing |-> isMaximizing, validMoves |-> <<>>, i |-> 1,
   best |-> 0, bestCol |-> -1, pc |-> "entry", val |-> 0]

Top == calls[Len(calls)]

SetTop(f) == [calls EXCEPT ![Len(calls)] = f]

\* getCpuMove up to its search loop: what it throws or returns before the
\* loop, or the frame it enters the loop with.
beforeSearch(h, b) ==
  LET validMoves == getValidMoves(deref(h, b))
      win   == scanWouldWin(h, b, validMoves, 1, 2)
      block == scanWouldWin(h, b, validMoves, 1, 1)
  IN  IF Len(validMoves) = 0
      THEN [op |-> "getCpuMove", threw |-> NoValidMoves, col |-> -1, calls |-> <<>>]
      ELSE IF win.found
      THEN [op |-> "getCpuMove", threw |-> "", col |-> win.col, calls |-> <<>>]
      ELSE IF block.found
      THEN [op |-> "getCpuMove", threw |-> "", col |-> block.col, calls |-> <<>>]
      ELSE [op |-> "searching", threw |-> "", col |-> -1,
            calls |-> <<[Frame("getCpuMove", b, Len(h), SEARCH_DEPTH,
                               NegInfinity, Infinity, TRUE)
                           EXCEPT !.validMoves = validMoves, !.pc = "loop",
                                  !.best = NegInfinity,
                                  !.bestCol = validMoves[1]]>>]

CallGetCpuMove ==
  /\ Fresh
  /\ calls = <<>>
  /\ \E res \in {beforeSearch(heap, board)} :
       /\ op' = res.op
       /\ ret' = [NoRet EXCEPT !.threw = res.threw, !.val = res.col]
       /\ calls' = res.calls
  /\ args' = NoArgs
  /\ UNCHANGED <<heap, board, placed, uiVars>>

\* minimax from its entry to its first loop, or to its return.
EnterMinimax ==
  /\ calls # <<>>
  /\ Top.pc = "entry"
  /\ LET validMoves == getValidMoves(deref(heap, Top.b))
     IN  calls' = SetTop(
           IF Len(validMoves) = 0 THEN [Top EXCEPT !.pc = "return", !.val = 0]
           ELSE IF Top.depth = 0
           THEN [Top EXCEPT !.pc = "return", !.val = evaluateBoard(deref(heap, Top.b))]
           ELSE [Top EXCEPT !.pc = "loop", !.validMoves = validMoves,
                            !.best = IF Top.isMaximizing THEN NegInfinity
                                     ELSE Infinity])
  /\ UNCHANGED <<heap, board, placed, op, args, ret, uiVars>>

\* One iteration of the loop of the innermost call, up to its minimax call.
LoopStep ==
  /\ calls # <<>>
  /\ Top.pc = "loop"
  /\ IF Top.i > Len(Top.validMoves)
     THEN /\ calls' = SetTop([Top EXCEPT !.pc = "return", !.val = Top.best])
          /\ heap' = heap
     ELSE LET col    == Top.validMoves[Top.i]
              player == IF Top.isMaximizing THEN 2 ELSE 1
              sim    == simulateMove(heap, Top.b, col, player)
              root   == Top.fn = "getCpuMove"
          IN  IF ~root /\ checkWin(deref(sim.heap, sim.newBoard), col, sim.row, player)
              THEN /\ heap' = heap
                   /\ calls' = SetTop([Top EXCEPT
                        !.pc = "return",
                        !.val = IF Top.isMaximizing THEN WIN_SCORE + Top.depth
                                ELSE LOSE_SCORE - Top.depth])
              ELSE /\ heap' = sim.heap
                   /\ calls' = Append(calls,
                        Frame("minimax", sim.newBoard, Len(heap), nextDepth(Top.depth),
                              IF root THEN NegInfinity ELSE Top.alpha,
                              IF root THEN Infinity ELSE Top.beta,
                              ~Top.isMaximizing))
  /\ UNCHANGED <<board, placed, op, args, ret, uiVars>>

\* The innermost minimax call returns its value to the loop that called it.
ReturnStep ==
  /\ Len(calls) >= 2
  /\ Top.pc = "return"
  /\ LET score  == Top.val
         caller == calls[Len(calls) - 1]
         better == IF caller.isMaximizing THEN Max(caller.best, score)
                   ELSE Min(caller.best, score)
         alpha  == IF caller.isMaximizing THEN Max(caller.alpha, score) ELSE caller.alpha
         beta   == IF caller.isMaximizing THEN caller.beta ELSE Min(caller.beta, score)
         after  ==
           IF caller.fn = "getCpuMove"
           THEN [caller EXCEPT
                   !.i = @ + 1,
                   !.best = IF score > caller.best THEN score ELSE @,
                   !.bestCol = IF score > caller.best THEN caller.validMoves[caller.i]
                               ELSE @]
           ELSE IF cutoff(alpha, beta)
           THEN [caller EXCEPT !.pc = "return", !.val = better]
           ELSE [caller EXCEPT !.i = @ + 1, !.best = better, !.alpha = alpha,
                               !.beta = beta]
     IN  /\ calls' = Append(SubSeq(calls, 1, Len(calls) - 2), after)
         /\ heap' = release(heap, Top.base)
  /\ UNCHANGED <<board, placed, op, args, ret, uiVars>>

\* getCpuMove returns bestCol.
ReturnGetCpuMove ==
  /\ Len(calls) = 1
  /\ Top.pc = "return"
  /\ calls' = <<>>
  /\ op' = "getCpuMove"
  /\ ret' = [NoRet EXCEPT !.val = Top.bestCol]
  /\ UNCHANGED <<heap, board, placed, args, uiVars>>

\* The steps of a getCpuMove call that has entered its search loop.
Running ==
  \/ EnterMinimax
  \/ LoopStep
  \/ ReturnStep
  \/ ReturnGetCpuMove

NextStack ==
  \/ CallGetCpuMove
  \/ Running

\* A call that has started keeps running: nothing preempts it.
SpecStack == (InitSeed \/ InitWide) /\ [][NextStack]_vars /\ WF_vars(Running)

\* Pieces on the board of frame f.
PiecesOf(f) == Cardinality({<<c, r>> \in ColIdx \X RowIdx : deref(heap, f.b)[c][r] # 0})

\* C22 (SpecStack): getCpuMove terminates.  Every minimax call has a depth
\* one less than its caller's (SEARCH_DEPTH - 1 for the calls made by
\* getCpuMove) and a board with one piece more, no depth is negative, the
\* calls nest at most SEARCH_DEPTH - 1 levels below those of getCpuMove, and
\* a getCpuMove that has entered its search loop returns.
SearchTerminates ==
  /\ [](\A k \in 2..Len(calls) :
          /\ calls[k].depth = calls[k - 1].depth - 1
          /\ calls[k].depth >= 0
          /\ PiecesOf(calls[k]) = PiecesOf(calls[k - 1]) + 1)
  /\ [](Len(calls) - 2 <= SEARCH_DEPTH - 1)
  /\ (calls # <<>>) ~> (op = "getCpuMove" /\ calls = <<>>)

\* A minimax call of depth 0 is running, five levels below a call made by
\* getCpuMove.
SearchTerminatesWitness ==
  /\ Len(calls) = SEARCH_DEPTH + 1
  /\ Top.depth = 0
  /\ Top.pc = "return"
  /\ calls[2].depth = SEARCH_DEPTH - 1

====
